---- MODULE Spec2Model ----
(***************************************************************************)
(* Model of the CM6 zoom extension (src/src/main.ts).                      *)
(*                                                                         *)
(* The editor state that matters is the value of zoomStateField (a         *)
(* DecorationSet of block replace decorations), the "is-zoomed-in" class   *)
(* on the editor's container element, the header widget that zoomIn keeps  *)
(* in zoomMarkHeader, the widget of the header decoration in the set, and  *)
(* the document length; the document text is abstracted to its length and  *)
(* to the text of the cursor line.  The model ends at the set that the     *)
(* field provides to the editor view (line 54): which of its decorations   *)
(* the view draws, and when it calls toDOM(), is not modelled.             *)
(*                                                                         *)
(* What zoomIn reads from its surroundings is an input of zoomIn: the      *)
(* cursor line, the document title, the answer of foldable(), the two      *)
(* vault settings, whether the editor's container is an element of the     *)
(* global document, and whether another element of that document carries   *)
(* the class.  The inputs of the last zoomIn are recorded, as are the      *)
(* outputs and the starting state of the last operation.                   *)
(*                                                                         *)
(* A decoration set is kept as the library keeps it: a sequence of layers, *)
(* each the sequence of its ranges (one chunk per layer).  RangeSet.map    *)
(* and RangeSet.update work layer by layer; iter gives the ranges in the   *)
(* order in which the set's cursor yields them.                            *)
(*                                                                         *)
(* Spec is the editor as the user drives it, on documents whose lines are  *)
(* empty.  SpecZoom is the same editor without edits, on longer documents. *)
(* SpecLabel zooms in on a line with text, for every text and title of a   *)
(* bounded set.  SpecUpdate exercises zoomStateField.update on             *)
(* transactions that carry a change and zoom effects together.             *)
(***************************************************************************)
EXTENDS Integers, Sequences, FiniteSets, TLC

\* ---------------------------------------------------------------- bounds
MaxDocLen == 3      \* longest document explored by Spec
MaxZoomLen == 4     \* longest document explored by SpecZoom
MaxMarkers == 2     \* zoomIn is not explored beyond this many decorations
MaxInsert == 1      \* longest text inserted by one edit
MaxLineLen == 3     \* longest cursor line explored by SpecLabel
MaxUpdateLen == 2   \* longest starting document explored by SpecUpdate

\* ------------------------------------------------------------- constants
Null == -1          \* mapPos result "null" / foldable result "null"
RangeErr == -2      \* mapPos throwing RangeError
Far == 1000000000   \* C.Far: the position of a cursor that has run out

VARIABLES
  docLength,        \* view.state.doc.length
  decorations,      \* value of zoomStateField: a RangeSet (layers of ranges)
  isZoomedIn,       \* view.dom.parentElement has class "is-zoomed-in"
  otherZoomedIn,    \* zoomIn input: another element of document has the class
  ownInDocument,    \* zoomIn input: the container is an element of document
  foldHeading,      \* zoomIn input: app.vault.config.foldHeading
  foldIndent,       \* zoomIn input: app.vault.config.foldIndent
  lastOp,           \* the operation that ran last
  ret,              \* what it returned
  batch,            \* the effects it computed (zoomIn / zoomOut)
  notices,          \* number of Notice objects it created
  lastLineFrom,     \* zoomIn input: cursorAtLine.from
  lastFoldTo,       \* zoomIn input: foldRange.to, or Null when foldable() is null
  prevDecorations,  \* value of zoomStateField before the last operation
  prevZoomedIn,     \* isZoomedIn before the last operation
  lastChange,       \* the replacement made by the last operation, if an edit
  displayName,      \* zoomIn input: getDisplayText() of the editor's view
  lineText,         \* zoomIn input: cursorAtLine.text
  headerWidget,     \* widget of zoomMarkHeader (line 89): <<>> until assigned
  decoWidget        \* widget of the header decoration in the set, <<>> if none

vars == <<docLength, decorations, isZoomedIn, otherZoomedIn, ownInDocument,
          foldHeading, foldIndent, lastOp, ret, batch, notices, lastLineFrom,
          lastFoldTo, prevDecorations, prevZoomedIn, lastChange,
          displayName, lineText, headerWidget, decoWidget>>

\* ------------------------------------------------------------ decorations
\* Decoration.replace({block: true}) and Decoration.replace({block: true, widget})
zoomMarkHidden(from, to) == [kind |-> "Hidden", from |-> from, to |-> to]

zoomMarkHeader(from, to) == [kind |-> "Header", from |-> from, to |-> to]

\* a block replace decoration is inclusive on both sides
StartSide == -1

EndSide == 1

\* StateEffect values
zoomEffect(from, to) ==
  [type |-> "zoomEffect", hasValue |-> TRUE, from |-> from, to |-> to]

zoomOutEffect(from, to) ==
  [type |-> "zoomOutEffect", hasValue |-> TRUE, from |-> from, to |-> to]

\* an effect of another extension; its value may be falsy
otherEffect(hasValue) ==
  [type |-> "other", hasValue |-> hasValue, from |-> 0, to |-> 0]

\* ------------------------------------------------------------- changes
\* tr.changes for one replacement of [from, to) by ins characters, as the
\* section list of a ChangeDesc (ins = -1: unchanged section).
Sections(from, to, ins, len) ==
  (IF from > 0 THEN <<[len |-> from, ins |-> -1]>> ELSE <<>>)
  \o (IF to > from \/ ins > 0 THEN <<[len |-> to - from, ins |-> ins]>> ELSE <<>>)
  \o (IF len > to THEN <<[len |-> len - to, ins |-> -1]>> ELSE <<>>)

NoChanges(len) == IF len > 0 THEN <<[len |-> len, ins |-> -1]>> ELSE <<>>

RECURSIVE SumNew(_, _)
SumNew(sections, i) ==
  IF i > Len(sections) THEN 0
  ELSE (IF sections[i].ins < 0 THEN sections[i].len ELSE sections[i].ins)
       + SumNew(sections, i + 1)

newLength(sections) == SumNew(sections, 1)

\* ChangeDesc.mapPos(pos, assoc, mode)
RECURSIVE mapSet(_, _, _, _, _, _, _)
mapSet(sections, pos, assoc, mode, i, posA, posB) ==
  IF i > Len(sections)
  THEN IF pos > posA THEN RangeErr ELSE posB
  ELSE LET len == sections[i].len
           ins == sections[i].ins
           endA == posA + len
       IN IF ins < 0
          THEN IF endA > pos THEN posB + (pos - posA)
               ELSE mapSet(sections, pos, assoc, mode, i + 1, endA, posB + len)
          ELSE IF mode # "Simple" /\ endA >= pos
                  /\ (\/ mode = "TrackDel" /\ posA < pos /\ endA > pos
                      \/ mode = "TrackBefore" /\ posA < pos
                      \/ mode = "TrackAfter" /\ endA > pos)
               THEN Null
               ELSE IF endA > pos \/ (endA = pos /\ assoc < 0 /\ len = 0)
                    THEN IF pos = posA \/ assoc < 0 THEN posB ELSE posB + ins
                    ELSE mapSet(sections, pos, assoc, mode, i + 1, endA, posB + ins)

mapPos(sections, pos, assoc, mode) == mapSet(sections, pos, assoc, mode, 1, 0, 0)

\* ChangeDesc.touchesRange(from, to): "false", "true" or "cover"
RECURSIVE touchesFrom(_, _, _, _, _)
touchesFrom(sections, from, to, i, pos) ==
  IF i > Len(sections) \/ pos > to THEN "false"
  ELSE LET end == pos + sections[i].len
       IN IF sections[i].ins >= 0 /\ pos <= to /\ end >= from
          THEN IF pos < from /\ end > to THEN "cover" ELSE "true"
          ELSE touchesFrom(sections, from, to, i + 1, end)

touchesRange(sections, from, to) == touchesFrom(sections, from, to, 1, 0)

\* ------------------------------------------------------------- RangeSet
\* A RangeSet is the sequence of its layers, the first layer first, and a
\* layer the sequence of its ranges; RangeSet.empty is <<>>.

\* RangeSet.size
RECURSIVE size(_)
size(set) == IF set = <<>> THEN 0 ELSE Len(Head(set)) + size(Tail(set))

\* chunkPos and chunkEnd of a layer's chunk (Chunk.length is the last to)
chunkPos(layer) == layer[1].from

chunkEnd(layer) == layer[Len(layer)].to

max(a, b) == IF a > b THEN a ELSE b

\* RangeSet.length
RECURSIVE rangeSetLength(_)
rangeSetLength(set) ==
  IF set = <<>> THEN 0
  ELSE max(chunkEnd(Head(set)), rangeSetLength(Tail(set)))

\* The end of the loop body of Chunk.map: the range at its mapped
\* positions, as a sequence of one range, or <<>> when it is dropped: a
\* position did not map, or the range came out inverted.
mappedRange(m, newFrom, newTo) ==
  IF newFrom = Null \/ newFrom = RangeErr \/ newTo = RangeErr THEN <<>>
  ELSE IF newFrom > newTo \/ (newFrom = newTo /\ StartSide > 0 /\ EndSide <= 0)
       THEN <<>>
  ELSE <<[m EXCEPT !.from = newFrom, !.to = newTo]>>

\* mutant: a range that collapses to nothing is dropped
mapRange_dropEmpty(m, sections) ==
  IF mapPos(sections, m.from, StartSide, "Simple")
       >= mapPos(sections, m.to, EndSide, "Simple")
  THEN <<>>
  ELSE mappedRange(m, mapPos(sections, m.from, StartSide, "Simple"),
              mapPos(sections, m.to, EndSide, "Simple"))

\* Chunk.map for one range: an empty range maps its one position with the
\* decoration's MapMode for the start and plainly for the end, any other
\* range maps its two ends.
mapRange(m, sections) ==
  IF m.from = m.to
  THEN mappedRange(m, mapPos(sections, m.from, StartSide, "TrackBefore"),
              mapPos(sections, m.from, EndSide, "Simple"))
  ELSE mappedRange(m, mapPos(sections, m.from, StartSide, "Simple"),
              mapPos(sections, m.to, EndSide, "Simple"))

\* Chunk.map: the ranges of a chunk mapped one by one, in their order
RECURSIVE mapFrom(_, _, _)
mapFrom(layer, sections, i) ==
  IF i > Len(layer) THEN <<>>
  ELSE mapRange(layer[i], sections) \o mapFrom(layer, sections, i + 1)

\* a chunk that no change touches keeps its ranges and moves as a whole
moveLayer(layer, delta) ==
  [i \in 1..Len(layer) |->
     [layer[i] EXCEPT !.from = @ + delta, !.to = @ + delta]]

\* the three cases of RangeSet.map for a chunk, touch being the answer of
\* touchesRange for it
mapTouched(layer, sections, touch) ==
  IF touch = "false"
  THEN moveLayer(layer, mapPos(sections, chunkPos(layer), -1, "Simple")
                          - chunkPos(layer))
  ELSE IF touch = "cover" THEN <<>>
  ELSE mapFrom(layer, sections, 1)

\* RangeSet.map for one layer: a chunk no change touches moves as a whole,
\* a chunk a change covers is dropped, any other is mapped range by range
mapLayer(layer, sections) ==
  mapTouched(layer, sections,
             touchesRange(sections, chunkPos(layer), chunkEnd(layer)))

\* a layer without ranges is no layer
layerOf(ranges) == IF ranges = <<>> THEN <<>> ELSE <<ranges>>

\* ChangeDesc.empty: no section is a replacement
empty(sections) == \A i \in 1..Len(sections) : sections[i].ins < 0

\* the layers that keep a range when mapped, in their order
RECURSIVE mapLayers(_, _)
mapLayers(set, sections) ==
  IF set = <<>> THEN <<>>
  ELSE layerOf(mapLayer(Head(set), sections)) \o mapLayers(Tail(set), sections)

\* effects?.map(tr.changes): "if (changes.empty || this.isEmpty) return this"
map(set, sections) ==
  IF empty(sections) \/ set = <<>> THEN set ELSE mapLayers(set, sections)

\* ChangeDesc.length: the length of the document the changes apply to
RECURSIVE lengthFrom(_, _)
lengthFrom(sections, i) ==
  IF i > Len(sections) THEN 0 ELSE sections[i].len + lengthFrom(sections, i + 1)

\* mapPos raises RangeError for a position beyond the document the changes
\* apply to ("if (pos > posA) throw new RangeError" after the last section).
\* RangeSet.map calls it on the start of a chunk no change touches, on the
\* ends of every range of a chunk a change touches, and not at all for a
\* chunk a change covers; touch is the answer of touchesRange for the chunk.
beyond(layer, touch, len) ==
  IF touch = "false" THEN chunkPos(layer) > len
  ELSE IF touch = "cover" THEN FALSE
  ELSE \E i \in 1..Len(layer) : layer[i].from > len \/ layer[i].to > len

mapThrows(set, sections) ==
  /\ ~empty(sections)
  /\ \E k \in 1..Len(set) :
        beyond(set[k],
               touchesRange(sections, chunkPos(set[k]), chunkEnd(set[k])),
               lengthFrom(sections, 1))

\* the filter functions of the source, applied to a range ("none": no filter)
callFilter(filter, m) ==
  IF filter = "from => from != 0" THEN m.from # 0 ELSE FALSE

\* RangeSetBuilder.addInner: a range is taken into the layer being built
\* when it starts after the end of the last range taken
fits(built, from) == built = <<>> \/ from > built[Len(built)].to

addInner(acc, range) ==
  IF fits(acc.built, range.from)
  THEN [acc EXCEPT !.built = Append(@, range)]
  ELSE [acc EXCEPT !.spill = Append(@, range)]

\* The loop of RangeSet.update over one layer: i is the next range to add,
\* j the cursor in the layer; the result is the layer built and the ranges
\* that spill to the next layer.
RECURSIVE updateLayer(_, _, _, _, _, _, _, _)
updateLayer(layer, add, filter, filterFrom, filterTo, i, j, acc) ==
  IF i > Len(add) /\ j > Len(layer) THEN acc
  ELSE IF i <= Len(add)
          /\ (IF j > Len(layer) THEN Far ELSE layer[j].from) - add[i].from >= 0
  THEN updateLayer(layer, add, filter, filterFrom, filterTo, i + 1, j,
                   addInner(acc, add[i]))
  ELSE IF /\ j = 1
          /\ (i > Len(add) \/ chunkEnd(layer) < add[i].from)
          /\ (filter = "none" \/ filterFrom > chunkEnd(layer)
                              \/ filterTo < chunkPos(layer))
          /\ fits(acc.built, chunkPos(layer))
  THEN updateLayer(layer, add, filter, filterFrom, filterTo, i, Len(layer) + 1,
                   [acc EXCEPT !.built = @ \o layer])
  ELSE updateLayer(layer, add, filter, filterFrom, filterTo, i, j + 1,
                   IF filter = "none" \/ filterFrom > layer[j].to
                        \/ filterTo < layer[j].from \/ callFilter(filter, layer[j])
                   THEN addInner(acc, layer[j])
                   ELSE acc)

RECURSIVE updateSet(_, _, _, _, _)

\* the end of RangeSet.update: the layer built, then the next layers updated
\* with the ranges that spilled
nextLayer(r, rest, filter, filterFrom, filterTo) ==
  layerOf(r.built)
    \o (IF rest = <<>> /\ r.spill = <<>> THEN <<>>
        ELSE updateSet(rest, r.spill, filter, filterFrom, filterTo))

\* RangeSet.update({add, filter, filterFrom, filterTo})
updateSet(set, add, filter, filterFrom, filterTo) ==
  IF add = <<>> /\ (filter = "none" \/ set = <<>>) THEN set
  ELSE IF set = <<>>
       THEN nextLayer(updateLayer(<<>>, add, filter, filterFrom, filterTo, 1, 1,
                                  [built |-> <<>>, spill |-> <<>>]),
                      <<>>, filter, filterFrom, filterTo)
       ELSE nextLayer(updateLayer(Head(set), add, filter, filterFrom, filterTo,
                                  1, 1, [built |-> <<>>, spill |-> <<>>]),
                      Tail(set), filter, filterFrom, filterTo)

\* RangeSet.update({filter, filterFrom, filterTo}): the filter is consulted
\* only for ranges that touch [filterFrom, filterTo]; the others are kept.
updateFilter(set, filter, filterFrom, filterTo) ==
  updateSet(set, <<>>, filter, filterFrom, filterTo)

\* RangeSet.update({add: [range]})
updateAdd(set, range) == updateSet(set, <<range>>, "none", 0, rangeSetLength(set))

\* the position of a layer cursor: idx is the range it stands on
cursorFrom(set, c) ==
  IF c.idx > Len(set[c.layer]) THEN Far ELSE set[c.layer][c.idx].from

cursorTo(set, c) ==
  IF c.idx > Len(set[c.layer]) THEN Far ELSE set[c.layer][c.idx].to

\* mutant: the cursors are compared by their end alone
compare_byTo(set, a, b) == cursorTo(set, a) - cursorTo(set, b)

\* LayerCursor.compare: by from, then (sides and rank being equal) by to
compare(set, a, b) ==
  IF cursorFrom(set, a) # cursorFrom(set, b)
  THEN cursorFrom(set, a) - cursorFrom(set, b)
  ELSE cursorTo(set, a) - cursorTo(set, b)

RECURSIVE heapBubble(_, _, _)

\* the step of heapBubble once the smaller child is known
bubbleTo(set, heap, index, child) ==
  IF compare(set, heap[index], heap[child]) < 0 THEN heap
  ELSE heapBubble(set, [heap EXCEPT ![index] = heap[child],
                                    ![child] = heap[index]], child)

\* heapBubble(heap, index), with the heap's first element at index 1
heapBubble(set, heap, index) ==
  IF 2 * index > Len(heap) THEN heap
  ELSE IF 2 * index + 1 <= Len(heap)
          /\ compare(set, heap[2 * index], heap[2 * index + 1]) >= 0
       THEN bubbleTo(set, heap, index, 2 * index + 1)
       ELSE bubbleTo(set, heap, index, 2 * index)

\* HeapCursor.goto: heapBubble from the middle of the heap down to its top
RECURSIVE heapify(_, _, _)
heapify(set, heap, index) ==
  IF index < 1 THEN heap
  ELSE heapify(set, heapBubble(set, heap, index), index - 1)

\* HeapCursor.next until the cursor has no value
RECURSIVE drain(_, _)
drain(set, heap) ==
  IF heap[1].idx > Len(set[heap[1].layer]) THEN <<>>
  ELSE <<set[heap[1].layer][heap[1].idx]>>
       \o drain(set, heapBubble(set, [heap EXCEPT ![1].idx = @ + 1], 1))

\* RangeSet.iter(): the ranges in the order the cursor yields them
iter(set) ==
  IF Len(set) = 0 THEN <<>>
  ELSE IF Len(set) = 1 THEN set[1]
  ELSE drain(set, heapify(set, [k \in 1..Len(set) |-> [layer |-> k, idx |-> 1]],
                          (Len(set) \div 2) + 1))

\* ------------------------------------------------- zoomStateField.update
fromNotZero == "from => from != 0"

removeAll == "e => false"

\* mutant: the existing header decoration is not removed first
applyZoomEffect_noFilter(set, from, to) ==
  IF from = 0
  THEN updateAdd(set, zoomMarkHeader(from, to))
  ELSE updateAdd(set, zoomMarkHidden(from, to))

\* lines 33-40: act on a zoomEffect
applyZoomEffect(set, from, to) ==
  IF from = 0
  THEN updateAdd(updateFilter(set, fromNotZero, 0, rangeSetLength(set)),
                 zoomMarkHeader(from, to))
  ELSE updateAdd(set, zoomMarkHidden(from, to))

\* mutant: the decorations that do not start at 0 are kept
applyZoomOutEffect_keepHidden(set, from, to) ==
  updateFilter(set, fromNotZero, from, to)

\* lines 41-48: act on a zoomOutEffect
applyZoomOutEffect(set, from, to) == updateFilter(set, removeAll, from, to)

\* mutant: every effect with a value is taken for a zoomEffect
applyEffect_anyEffect(set, effect) ==
  IF effect.hasValue
  THEN applyZoomEffect(set, effect.from, effect.to)
  ELSE set

\* lines 31-49: the body of the loop over tr.effects
applyEffect(set, effect) ==
  IF effect.hasValue
  THEN IF effect.type = "zoomEffect"
       THEN applyZoomEffect(set, effect.from, effect.to)
       ELSE IF effect.type = "zoomOutEffect"
            THEN applyZoomOutEffect(set, effect.from, effect.to)
            ELSE set
  ELSE set

RECURSIVE applyEffects(_, _, _)
applyEffects(set, effects, i) ==
  IF i > Len(effects) THEN set
  ELSE applyEffects(applyEffect(set, effects[i]), effects, i + 1)

\* mutant: the effects are folded in before the set is mapped
update_effectsFirst(set, changes, effects) ==
  map(applyEffects(set, effects, 1), changes)

\* update(effects, tr): map through tr.changes, then fold tr.effects in order
update(set, changes, effects) == applyEffects(map(set, changes), effects, 1)

\* create(state): Decoration.none
create == <<>>

\* ------------------------------------------------------------ breadcrumb
\* Texts are sequences of characters: the heading marker, white space, the
\* two list bullets and a letter.
Chars == {"#", " ", "-", "*", "a"}

Texts(n) == UNION {[1..k -> Chars] : k \in 0..n}

\* the document titles explored
Titles == {<<"N">>, <<"a">>}

\* \s
IsSpace(c) == c = " "

\* the number of characters at the start of text that belong to set
RECURSIVE LeadingRun(_, _)
LeadingRun(text, set) ==
  IF Len(text) > 0 /\ Head(text) \in set
  THEN 1 + LeadingRun(Tail(text), set)
  ELSE 0

\* line 113: text.replace(/(^#+\s)|(^\s*[-*]\s)/, "")
replace(text) ==
  LET n == LeadingRun(text, {"#"})
      k == LeadingRun(text, {" "})
  IN IF n >= 1 /\ Len(text) > n /\ IsSpace(text[n + 1])
     THEN SubSeq(text, n + 2, Len(text))
     ELSE IF Len(text) >= k + 2 /\ text[k + 1] \in {"-", "*"}
                                /\ IsSpace(text[k + 2])
          THEN SubSeq(text, k + 3, Len(text))
          ELSE text

\* lines 67-71: constructor(heading, displayName)
HeaderWidget(heading, name) == [heading |-> heading, displayName |-> heading]

\* lines 73-80: the text of the breadcrumb element
toDOM(widget) == widget.displayName \o <<" ", ">", " ">> \o widget.heading

\* the effect makes update() build a header decoration (lines 34-37)
addsHeader(effect) ==
  effect.hasValue /\ effect.type = "zoomEffect" /\ effect.from = 0

\* The widget of the header decoration in the set update() returns: none
\* when the set holds no header decoration; the widget of zoomMarkHeader
\* (line 37) when an effect of the transaction built the header; else the
\* widget of the decoration that was in the set before.
held(prev, set, effects, widget) ==
  IF \A k \in 1..Len(set) : \A i \in 1..Len(set[k]) : set[k][i].kind # "Header"
  THEN <<>>
  ELSE IF \E i \in 1..Len(effects) : addsHeader(effects[i])
       THEN widget
       ELSE prev

\* line 78: the text toDOM() gives the breadcrumb element of the header
\* decoration in the set, none when the set holds no header decoration
textContent == IF decoWidget = <<>> THEN <<>> ELSE toDOM(decoWidget[1])

\* ------------------------------------------------------------ container
\* mutant: the class is left on the element
removeClass_keep(has) == has

removeClass(has) == FALSE

addClass(has) == TRUE

\* document.querySelector(".is-zoomed-in") finds an element: the editor's
\* container when it has the class and is an element of document, or
\* another element of document that has the class
querySelector(own, inDocument, other) == (own /\ inDocument) \/ other

\* ------------------------------------------------------------ controller
\* mutant: the clearing effect spans nothing
unmarkHiddenLines_empty(len) == <<zoomOutEffect(0, 0)>>

\* zoomOut, lines 92-94
unmarkHiddenLines(len) == <<zoomOutEffect(0, len)>>

\* mutant: the answer of foldable() is not checked
noFoldRange_unchecked(foldTo) == FALSE

\* zoomIn, line 128: !foldRange
noFoldRange(foldTo) == foldTo = Null

\* mutant: the hidden tail starts at the section end, not one past it
markHiddenLines_offByOne(foldTo, lineFrom, endPos, zoomedElement) ==
  (IF foldTo + 1 < endPos THEN <<zoomEffect(foldTo, endPos)>> ELSE <<>>)
  \o (IF lineFrom - 1 > 0
      THEN <<zoomEffect(0, lineFrom - 1)>>
      ELSE IF ~zoomedElement THEN <<zoomEffect(0, 0)>> ELSE <<>>)

\* mutant: the header mark reaches the start of the cursor line
markHiddenLines_headerToLine(foldTo, lineFrom, endPos, zoomedElement) ==
  (IF foldTo + 1 < endPos THEN <<zoomEffect(foldTo + 1, endPos)>> ELSE <<>>)
  \o (IF lineFrom - 1 > 0
      THEN <<zoomEffect(0, lineFrom)>>
      ELSE IF ~zoomedElement THEN <<zoomEffect(0, 0)>> ELSE <<>>)

\* mutant: the tail is hidden without asking whether there is one
markHiddenLines_noGuard(foldTo, lineFrom, endPos, zoomedElement) ==
  <<zoomEffect(foldTo + 1, endPos)>>
  \o (IF lineFrom - 1 > 0
      THEN <<zoomEffect(0, lineFrom - 1)>>
      ELSE IF ~zoomedElement THEN <<zoomEffect(0, 0)>> ELSE <<>>)

\* zoomIn, lines 130-142
markHiddenLines(foldTo, lineFrom, endPos, zoomedElement) ==
  (IF foldTo + 1 < endPos THEN <<zoomEffect(foldTo + 1, endPos)>> ELSE <<>>)
  \o (IF lineFrom - 1 > 0
      THEN <<zoomEffect(0, lineFrom - 1)>>
      ELSE IF ~zoomedElement THEN <<zoomEffect(0, 0)>> ELSE <<>>)

\* --------------------------------------------------------------- state
\* the ranges of the decoration set, and of the set before the last
\* operation, in the order of iteration
Ranges == iter(decorations)

PrevRanges == iter(prevDecorations)

TypeOK ==
  /\ docLength \in Nat
  /\ \A i \in 1..Len(Ranges) :
        /\ Ranges[i].kind \in {"Hidden", "Header"}
        /\ Ranges[i].from \in 0..docLength
        /\ Ranges[i].to \in 0..docLength
  /\ \A k \in 1..Len(decorations) : Len(decorations[k]) > 0
  /\ size(decorations) = Len(Ranges)
  /\ isZoomedIn \in BOOLEAN
  /\ otherZoomedIn \in BOOLEAN
  /\ ownInDocument \in BOOLEAN
  /\ foldHeading \in BOOLEAN
  /\ foldIndent \in BOOLEAN
  /\ lastOp \in {"create", "zoomIn", "zoomOut", "edit", "effect", "dispatch"}
  /\ ret \in {"none", "true", "false", "undefined", "RangeError"}
  /\ notices \in 0..1
  /\ Len(headerWidget) <= 1
  /\ Len(decoWidget) <= 1

\* every operation records the state it started from
Before ==
  /\ prevDecorations' = decorations
  /\ prevZoomedIn' = isZoomedIn

NoChange == [from |-> 0, to |-> 0, ins |-> 0]

\* what the input variables hold after an operation other than zoomIn
NoInput ==
  /\ lastLineFrom' = 0
  /\ lastFoldTo' = Null
  /\ foldHeading' = TRUE
  /\ foldIndent' = TRUE
  /\ otherZoomedIn' = FALSE
  /\ ownInDocument' = TRUE
  /\ displayName' = <<>>
  /\ lineText' = <<>>

\* what the history variables hold after an operation that computes no
\* batch, returns nothing and reads no input
Quiet(op) ==
  /\ Before
  /\ lastOp' = op
  /\ ret' = "none"
  /\ batch' = <<>>
  /\ notices' = 0
  /\ NoInput

\* The extension is registered on an editor showing a document whose length
\* is one of lengths: zoomStateField.create has run.
InitAt(lengths) ==
  /\ docLength \in lengths
  /\ decorations = create
  /\ isZoomedIn = removeClass(FALSE)
  /\ otherZoomedIn = FALSE
  /\ ownInDocument = TRUE
  /\ foldHeading = TRUE
  /\ foldIndent = TRUE
  /\ lastOp = "create"
  /\ ret = "none"
  /\ batch = <<>>
  /\ notices = 0
  /\ lastLineFrom = 0
  /\ lastFoldTo = Null
  /\ prevDecorations = <<>>
  /\ prevZoomedIn = FALSE
  /\ lastChange = NoChange
  /\ displayName = <<>>
  /\ lineText = <<>>
  /\ headerWidget = <<>>
  /\ decoWidget = <<>>

Init == InitAt(0..MaxDocLen)

\* ------------------------------------------------------------- actions
\* The editor state is reset (a file is loaded into the editor): create().
Reset(len) ==
  /\ docLength' = len
  /\ isZoomedIn' = removeClass(isZoomedIn)
  /\ decorations' = create
  /\ decoWidget' = held(decoWidget, decorations', <<>>, headerWidget)
  /\ Quiet("create")
  /\ lastChange' = NoChange
  /\ UNCHANGED headerWidget

\* update() on a transaction whose changes are changes and that carries
\* none of our effects
applyChanges(changes) ==
  IF mapThrows(decorations, changes)
  THEN /\ Before
       /\ NoInput
       /\ lastOp' = "edit"
       /\ ret' = "RangeError"
       /\ batch' = <<>>
       /\ notices' = 0
       /\ UNCHANGED <<docLength, decorations, decoWidget>>
  ELSE /\ docLength' = newLength(changes)
       /\ decorations' = update(decorations, changes, <<>>)
       /\ decoWidget' = held(decoWidget, decorations', <<>>, headerWidget)
       /\ Quiet("edit")

\* The user edits the document: a transaction that replaces [from, to) by
\* ins characters.
Edit(from, to, ins) ==
  /\ to > from \/ ins > 0
  /\ docLength - (to - from) + ins <= MaxDocLen
  /\ applyChanges(Sections(from, to, ins, docLength))
  /\ lastChange' = [from |-> from, to |-> to, ins |-> ins]
  /\ UNCHANGED <<isZoomedIn, headerWidget>>

\* A transaction without changes that carries another extension's effect.
ForeignEffect(hasValue) ==
  LET effects == <<otherEffect(hasValue)>>
  IN /\ decorations' = update(decorations, NoChanges(docLength), effects)
     /\ decoWidget' = held(decoWidget, decorations', effects, headerWidget)
     /\ Quiet("effect")
     /\ lastChange' = NoChange
     /\ UNCHANGED <<docLength, isZoomedIn, headerWidget>>

\* The command "CM6 Zoom Out".
zoomOut ==
  LET effects == unmarkHiddenLines(docLength)
  IN /\ isZoomedIn' = removeClass(isZoomedIn)
     /\ IF Len(effects) = 0
        THEN /\ ret' = "false"
             /\ UNCHANGED <<decorations, decoWidget>>
        ELSE /\ decorations' = update(decorations, NoChanges(docLength), effects)
             /\ decoWidget' = held(decoWidget, decorations', effects, headerWidget)
             /\ ret' = "true"
     /\ Before
     /\ lastOp' = "zoomOut"
     /\ batch' = effects
     /\ notices' = 0
     /\ NoInput
     /\ lastChange' = NoChange
     /\ UNCHANGED <<docLength, headerWidget>>

\* lines 145-147: the class is added to this pane, then markHiddenLines()
\* computes the batch
zoomInBatch(zoomed, lineFrom, foldTo, endPos, inDocument, other) ==
  markHiddenLines(foldTo, lineFrom, endPos,
                  querySelector(addClass(zoomed), inDocument, other))

\* lines 147-151: the batch is dispatched unless it is empty
dispatchEffects(effects) ==
  /\ batch' = effects
  /\ IF Len(effects) = 0
     THEN /\ ret' = "false"
          /\ UNCHANGED <<decorations, decoWidget>>
     ELSE /\ decorations' = update(decorations, NoChanges(docLength), effects)
          /\ decoWidget' = held(decoWidget, decorations', effects, headerWidget')
          /\ ret' = "true"

\* The command "CM6 Zoom In", with the cursor on the line that starts at
\* lineFrom and reads text, the document title being title, foldable()
\* answering a range that ends at foldTo (or Null), the settings "Fold
\* heading" and "Fold indent" being heading and indent, inDocument telling
\* whether the container is an element of document and other whether
\* another element of document has the class.
zoomIn(lineFrom, text, title, foldTo, heading, indent, inDocument, other) ==
  /\ Before
  /\ lastOp' = "zoomIn"
  /\ lastLineFrom' = lineFrom
  /\ lineText' = text
  /\ displayName' = title
  /\ lastFoldTo' = foldTo
  /\ foldHeading' = heading
  /\ foldIndent' = indent
  /\ ownInDocument' = inDocument
  /\ otherZoomedIn' = other
  /\ headerWidget' = <<HeaderWidget(replace(text), title)>>
  /\ IF ~heading \/ ~indent
     THEN /\ notices' = 1
          /\ ret' = "undefined"
          /\ batch' = <<>>
          /\ UNCHANGED <<decorations, isZoomedIn, decoWidget>>
     ELSE /\ notices' = 0
          /\ IF noFoldRange(foldTo)
             THEN /\ ret' = "false"
                  /\ batch' = <<>>
                  /\ UNCHANGED <<decorations, isZoomedIn, decoWidget>>
             ELSE /\ isZoomedIn' = addClass(isZoomedIn)
                  /\ dispatchEffects(zoomInBatch(isZoomedIn, lineFrom, foldTo,
                                                 docLength, inDocument, other))
  /\ size(decorations') <= MaxMarkers
  /\ lastChange' = NoChange
  /\ UNCHANGED docLength

\* where the cursor line starts is read by foldable() and markHiddenLines()
\* only, past the check of the settings
CursorLines(heading, indent) ==
  IF heading /\ indent THEN 0..docLength ELSE {0}

\* foldable() is called only when both settings are on; it answers null or a
\* range that starts at the end of the cursor line and ends between there
\* and the document end
FoldAnswers(lineFrom, text, heading, indent) ==
  IF heading /\ indent
  THEN {Null} \cup ((lineFrom + Len(text))..docLength)
  ELSE {Null}

\* document.querySelector() is called only when foldable() gave a range and
\* the cursor line starts at 0 or 1 (line 136)
QueryAnswers(foldTo, lineFrom) ==
  IF foldTo # Null /\ ~(lineFrom - 1 > 0) THEN BOOLEAN ELSE {FALSE}

\* whether the container is an element of document matters to that query
DocumentAnswers(foldTo, lineFrom) ==
  IF foldTo # Null /\ ~(lineFrom - 1 > 0) THEN BOOLEAN ELSE {TRUE}

\* the cursor lines of a document of line breaks
EmptyLines == {<<>>}

\* the title of the document Spec explores
SpecTitle == <<"N">>

\* the command "CM6 Zoom In" in any surroundings
zoomInCommand ==
  \E heading \in BOOLEAN : \E indent \in BOOLEAN :
    \E lineFrom \in CursorLines(heading, indent) : \E text \in EmptyLines :
      \E foldTo \in FoldAnswers(lineFrom, text, heading, indent) :
        \E inDocument \in DocumentAnswers(foldTo, lineFrom) :
          \E other \in QueryAnswers(foldTo, lineFrom) :
            zoomIn(lineFrom, text, SpecTitle, foldTo, heading, indent,
                   inDocument, other)

Next ==
  \/ \E len \in 0..MaxDocLen : Reset(len)
  \/ \E from \in 0..docLength : \E to \in from..docLength :
       \E ins \in 0..MaxInsert : Edit(from, to, ins)
  \/ \E hasValue \in BOOLEAN : ForeignEffect(hasValue)
  \/ zoomOut
  \/ zoomInCommand

Spec == Init /\ [][Next]_vars

Headers(set) == {i \in 1..Len(iter(set)) : iter(set)[i].kind = "Header"}

Hiddens(set) == {i \in 1..Len(iter(set)) : iter(set)[i].kind = "Hidden"}

CapabilitiesEnabled == foldHeading /\ foldIndent

\* Every decoration starts the document or ends it, so no change can strictly
\* cover the chunk that holds it (the case in which RangeSet.map drops a
\* chunk without mapping its ranges one by one).
Anchored ==
  \A i \in 1..Len(Ranges) :
     /\ 0 <= Ranges[i].from
     /\ Ranges[i].from <= Ranges[i].to
     /\ Ranges[i].to <= docLength
     /\ Ranges[i].from = 0 \/ Ranges[i].to = docLength

\* C1: after zoomOut, whatever the state it ran in, the decoration set is
\* empty, the container has no "is-zoomed-in" class and zoomOut returned true.
C1_ZoomOutClears ==
  lastOp = "zoomOut" => (decorations = <<>> /\ ~isZoomedIn /\ ret = "true")

\* zoomOut ran on a zoomed editor that held a header and a hidden range
C1_Witness ==
  /\ lastOp = "zoomOut"
  /\ prevZoomedIn
  /\ Headers(prevDecorations) # {}
  /\ Hiddens(prevDecorations) # {}

\* C2: the decoration set never holds more than one Header decoration, a
\* Header decoration starts at 0, and no decoration starts before it.
C2_OneHeader ==
  /\ Cardinality(Headers(decorations)) <= 1
  /\ \A h \in Headers(decorations) :
        /\ Ranges[h].from = 0
        /\ \A i \in 1..Len(Ranges) : Ranges[h].from <= Ranges[i].from

\* a zoomIn replaced the header of a set that already had one
C2_Witness ==
  /\ lastOp = "zoomIn"
  /\ ret = "true"
  /\ Headers(prevDecorations) # {}
  /\ Headers(decorations) # {}
  /\ \E i \in 1..Len(batch) : batch[i].from = 0

\* C3 (as claimed): the container carries the class exactly when the
\* decoration set holds a decoration.
C3_FlagIffHidden == isZoomedIn <=> (size(decorations) > 0)

\* C4: zoomIn on a fully visible document followed at once by zoomOut leaves
\* the decoration set empty, whatever the cursor line and the foldable range.
C4_RoundTrip ==
  [][(lastOp = "zoomIn" /\ prevDecorations = <<>> /\ ~prevZoomedIn
      /\ lastOp' = "zoomOut") => decorations' = <<>>]_vars

\* a zoomIn on a fully visible document has just hidden both sides
C4_Witness ==
  /\ lastOp = "zoomIn"
  /\ prevDecorations = <<>>
  /\ ~prevZoomedIn
  /\ ret = "true"
  /\ size(decorations) = 2

\* C5: after a reset the decoration set is empty and the container has no
\* class, whatever they were before.
C5_ResetIdle == lastOp = "create" => (decorations = <<>> /\ ~isZoomedIn)

\* the editor was reset while zoomed
C5_Witness ==
  /\ lastOp = "create"
  /\ prevZoomedIn
  /\ size(prevDecorations) > 0

\* C6 (as claimed): with a folding setting off, zoomIn returns false, leaves
\* the decoration set and the class alone, and shows one notice.
C6_CapabilityOff ==
  (lastOp = "zoomIn" /\ ~CapabilitiesEnabled)
    => /\ ret = "false"
       /\ decorations = prevDecorations
       /\ isZoomedIn = prevZoomedIn
       /\ notices = 1

\* C7 (as claimed): cursor on the first line, nothing to hide after the
\* section, no element zoomed: zoomIn emits the single signal {0, 0}, returns
\* true and leaves exactly one Header decoration and no Hidden one.
C7_FirstLineHeader ==
  (/\ lastOp = "zoomIn"
   /\ CapabilitiesEnabled
   /\ lastFoldTo # Null
   /\ lastLineFrom = 0
   /\ ~(lastFoldTo + 1 < docLength)
   /\ ~prevZoomedIn
   /\ ~otherZoomedIn)
    => /\ batch = <<zoomEffect(0, 0)>>
       /\ ret = "true"
       /\ Cardinality(Headers(decorations)) = 1
       /\ Hiddens(decorations) = {}

\* C8 (as claimed): a zoomIn that computes an empty batch returns false and
\* changes neither the decoration set nor the class.
C8_EmptyBatchNoOp ==
  (/\ lastOp = "zoomIn"
   /\ CapabilitiesEnabled
   /\ lastFoldTo # Null
   /\ batch = <<>>)
    => /\ ret = "false"
       /\ decorations = prevDecorations
       /\ isZoomedIn = prevZoomedIn

\* the number of times r occurs in the sequence
Count(seq, r) == Cardinality({i \in 1..Len(seq) : seq[i] = r})

\* the two sequences hold the same elements, each as many times
SameBag(a, b) ==
  /\ Len(a) = Len(b)
  /\ \A i \in 1..Len(a) : Count(a, a[i]) = Count(b, a[i])

\* the edit inserted text strictly before the decoration
InsertedBefore(m, c) == c.from = c.to /\ c.ins > 0 /\ c.from < m.from

\* the edit deleted the whole of a non-empty decoration's range
DeletedWhole(m, c) == m.from < m.to /\ c.from <= m.from /\ m.to <= c.to

\* the edit deleted the character before an empty decoration
DeletedBefore(m, c) == m.from = m.to /\ c.from < m.from /\ m.from <= c.to

Shifted(m, k) == [m EXCEPT !.from = m.from + k, !.to = m.to + k]

\* the decoration collapsed onto the text that replaces [c.from, c.to)
Collapsed(m, c) == [m EXCEPT !.from = c.from, !.to = c.from + c.ins]

\* C10 (as claimed): an edit never fails, shifts a decoration behind an
\* insertion by the inserted length, and removes every decoration whose whole
\* range it deletes.
C10_EditRemapClaimed ==
  lastOp = "edit"
    => /\ ret # "RangeError"
       /\ \A i \in 1..Len(PrevRanges) :
             InsertedBefore(PrevRanges[i], lastChange)
               => \E j \in 1..Len(Ranges) :
                     Ranges[j] = Shifted(PrevRanges[i], lastChange.ins)
       /\ Len(Ranges) <=
            Len(PrevRanges)
              - Cardinality({i \in 1..Len(PrevRanges) :
                               DeletedWhole(PrevRanges[i], lastChange)})

\* C10 (amended): an edit never fails; it shifts a decoration behind an
\* insertion by the inserted length; a non-empty decoration whose whole
\* range is deleted stays in the set, collapsed onto the replacement text
\* [from, from+ins); the only decorations an edit drops are empty ones whose
\* preceding character it deletes; and there are as many Header and as many
\* Hidden decorations after the edit as it kept.
C10_EditRemap ==
  lastOp = "edit"
    => /\ ret # "RangeError"
       /\ LET c == lastChange
              kept == SelectSeq(PrevRanges, LAMBDA m : ~DeletedBefore(m, c))
          IN /\ Len(Ranges) = Len(kept)
             /\ \A kind \in {"Header", "Hidden"} :
                   Cardinality({i \in 1..Len(Ranges) : Ranges[i].kind = kind})
                     = Cardinality({i \in 1..Len(kept) : kept[i].kind = kind})
             /\ \A i \in 1..Len(kept) :
                   /\ InsertedBefore(kept[i], c)
                        => Count(Ranges, Shifted(kept[i], c.ins))
                             = Count(kept, kept[i])
                   /\ DeletedWhole(kept[i], c)
                        => Count(Ranges, Collapsed(kept[i], c)) >= 1

\* an edit deleted exactly the range of a hidden decoration, which is still
\* in the set
C10_Witness ==
  /\ lastOp = "edit"
  /\ lastChange.ins = 0
  /\ \E i \in 1..Len(PrevRanges) :
        /\ DeletedWhole(PrevRanges[i], lastChange)
        /\ PrevRanges[i].kind = "Hidden"
  /\ Len(Ranges) = Len(PrevRanges)

\* the ranges are in the order of their from
SortedByFrom(ranges) ==
  \A i \in 1..Len(ranges) : \A j \in 1..Len(ranges) :
     i < j => ranges[i].from <= ranges[j].from

\* no range starts before an earlier one ends
NonOverlapping(ranges) ==
  \A i \in 1..Len(ranges) : \A j \in 1..Len(ranges) :
     i < j => ranges[i].to <= ranges[j].from

\* C11 (as claimed): in every reachable state the decorations are sorted by
\* from and pairwise non-overlapping.
C11_SortedDisjointClaimed == SortedByFrom(Ranges) /\ NonOverlapping(Ranges)

\* C11 (amended): in every reachable state the decorations are sorted by
\* from; they are pairwise non-overlapping after a zoomIn that started from
\* the empty set, but not after two successive zoomIn calls.
C11_SortedDisjoint ==
  /\ SortedByFrom(Ranges)
  /\ (lastOp = "zoomIn" /\ prevDecorations = <<>>) => NonOverlapping(Ranges)

\* a second zoomIn added a hidden range that overlaps the one already there
C11_Witness ==
  /\ lastOp = "zoomIn"
  /\ ret = "true"
  /\ Len(PrevRanges) = 1
  /\ Len(Ranges) = 2
  /\ ~NonOverlapping(Ranges)

\* C12: with both settings on and no foldable range at the cursor line,
\* zoomIn returns false, shows no notice, computes no batch and leaves the
\* decoration set and the class as they were.
C12_NoFoldableSection ==
  (lastOp = "zoomIn" /\ CapabilitiesEnabled /\ lastFoldTo = Null)
    => /\ ret = "false"
       /\ notices = 0
       /\ batch = <<>>
       /\ decorations = prevDecorations
       /\ isZoomedIn = prevZoomedIn

\* zoomIn found nothing to fold on an editor that was zoomed
C12_Witness ==
  /\ lastOp = "zoomIn"
  /\ CapabilitiesEnabled
  /\ lastFoldTo = Null
  /\ size(prevDecorations) > 0
  /\ prevZoomedIn

\* zoomIn got as far as computing its batch
BatchComputed == lastOp = "zoomIn" /\ CapabilitiesEnabled /\ lastFoldTo # Null

InBatch(signal) == \E i \in 1..Len(batch) : batch[i] = signal

\* C16 (as claimed): whenever the cursor line starts after offset 0, the
\* batch of a successful zoomIn holds the header signal [0, lineFrom-1).
C16_HeaderSignalClaimed ==
  (lastOp = "zoomIn" /\ ret = "true" /\ lastLineFrom > 0)
    => InBatch(zoomEffect(0, lastLineFrom - 1))

\* C16 (amended): whenever the cursor line starts after offset 1, the batch
\* of a successful zoomIn holds the header signal [0, lineFrom-1).
C16_HeaderSignal ==
  (lastOp = "zoomIn" /\ ret = "true" /\ lastLineFrom > 1)
    => InBatch(zoomEffect(0, lastLineFrom - 1))

\* a zoomIn on an already zoomed editor, cursor line starting after offset 1
C16_Witness ==
  /\ lastOp = "zoomIn"
  /\ ret = "true"
  /\ lastLineFrom > 1
  /\ prevZoomedIn
  /\ Headers(prevDecorations) # {}

\* C17 (as claimed): when the section ends before the document end the batch
\* holds the hide signal [foldTo+1, end); when it ends at the document end
\* the batch holds no signal with from > 0.
C17_HideSignalClaimed ==
  BatchComputed
    => /\ lastFoldTo < docLength => InBatch(zoomEffect(lastFoldTo + 1, docLength))
       /\ lastFoldTo = docLength => \A i \in 1..Len(batch) : batch[i].from = 0

\* C17 (amended): when the section ends more than one position before the
\* document end (foldTo + 1 < end) the batch holds the hide signal
\* [foldTo+1, end); otherwise it holds no signal with from > 0.
C17_HideSignal ==
  BatchComputed
    => /\ lastFoldTo + 1 < docLength
            => InBatch(zoomEffect(lastFoldTo + 1, docLength))
       /\ lastFoldTo + 1 >= docLength
            => \A i \in 1..Len(batch) : batch[i].from = 0

\* zoomIn with the cursor on the first line hid only the tail
C17_Witness ==
  /\ BatchComputed
  /\ lastFoldTo + 1 < docLength
  /\ lastLineFrom <= 1
  /\ Len(batch) = 1
  /\ ret = "true"

\* C18: a transaction without changes that carries only another extension's
\* effect leaves the decoration set as it was; an edit adds no decoration,
\* and every decoration after it is the image of a decoration of the same
\* kind before it, no kind having more decorations than before.
C18_Frame ==
  /\ lastOp = "effect" => decorations = prevDecorations
  /\ (lastOp = "edit" /\ ret # "RangeError")
       => /\ Len(Ranges) <= Len(PrevRanges)
          /\ \A kind \in {"Header", "Hidden"} :
                Cardinality({i \in 1..Len(Ranges) : Ranges[i].kind = kind})
                  <= Cardinality({i \in 1..Len(PrevRanges) :
                                    PrevRanges[i].kind = kind})
          /\ \A i \in 1..Len(Ranges) :
                \E j \in 1..Len(PrevRanges) :
                   /\ PrevRanges[j].kind = Ranges[i].kind
                   /\ mapRange(PrevRanges[j],
                               Sections(lastChange.from, lastChange.to,
                                        lastChange.ins,
                                        docLength - lastChange.ins
                                          + (lastChange.to - lastChange.from)))
                        = <<Ranges[i]>>

\* another extension's effect reached a zoomed editor
C18_Witness ==
  /\ lastOp = "effect"
  /\ Headers(prevDecorations) # {}
  /\ Hiddens(prevDecorations) # {}

WithinDocument(r) == 0 <= r.from /\ r.from <= r.to /\ r.to <= docLength

\* C19: every decoration satisfies 0 <= from <= to <= document length, and so
\* does every signal zoomIn emits.
C19_Ranges ==
  /\ \A i \in 1..Len(Ranges) : WithinDocument(Ranges[i])
  /\ lastOp = "zoomIn" => \A i \in 1..Len(batch) : WithinDocument(batch[i])

\* a deletion has shortened the document under two decorations
C19_Witness ==
  /\ lastOp = "edit"
  /\ lastChange.to > lastChange.from
  /\ lastChange.ins = 0
  /\ Len(Ranges) = 2
  /\ \E i \in 1..Len(PrevRanges) : PrevRanges[i].to > docLength

\* C20 (as claimed): the batch, the return value and the resulting
\* decoration set of zoomIn are those of the run that differs only in
\* whether another element of the document carries the zoomed class.
C20_OtherPaneIndependent ==
  BatchComputed
    => LET alt == zoomInBatch(prevZoomedIn, lastLineFrom, lastFoldTo,
                              docLength, ownInDocument, ~otherZoomedIn)
       IN /\ batch = alt
          /\ ret = (IF Len(alt) = 0 THEN "false" ELSE "true")
          /\ decorations =
               (IF Len(alt) = 0
                THEN prevDecorations
                ELSE update(prevDecorations, NoChanges(docLength), alt))

\* ------------------------------------------------- zooming without edits
\* SpecZoom is the editor of Spec on documents up to MaxZoomLen long, the
\* user never editing: long enough for a section with text hidden on both
\* of its sides.
InitZoom == InitAt(0..MaxZoomLen)

NextZoom ==
  \/ \E len \in 0..MaxZoomLen : Reset(len)
  \/ \E hasValue \in BOOLEAN : ForeignEffect(hasValue)
  \/ zoomOut
  \/ zoomInCommand

SpecZoom == InitZoom /\ [][NextZoom]_vars

\* C9: from an empty decoration set, with the section ending more than one
\* before the document end and the cursor line starting after offset 1,
\* zoomIn emits the hide of [foldTo+1, end) and then the header mark of
\* [0, lineFrom-1), returns true, and the set holds exactly those two
\* decorations; for a 60-character document, section end 40 and line start 20
\* these are [41,60) and [0,19).
C9_ScenarioA ==
  /\ (/\ lastOp = "zoomIn"
      /\ CapabilitiesEnabled
      /\ prevDecorations = <<>>
      /\ lastFoldTo # Null
      /\ lastFoldTo + 1 < docLength
      /\ lastLineFrom > 1)
       => /\ batch = <<zoomEffect(lastFoldTo + 1, docLength),
                       zoomEffect(0, lastLineFrom - 1)>>
          /\ ret = "true"
          /\ Ranges = <<zoomMarkHeader(0, lastLineFrom - 1),
                        zoomMarkHidden(lastFoldTo + 1, docLength)>>
  /\ markHiddenLines(40, 20, 60, TRUE) = <<zoomEffect(41, 60), zoomEffect(0, 19)>>
  /\ iter(update(<<>>, NoChanges(60), markHiddenLines(40, 20, 60, TRUE)))
       = <<zoomMarkHeader(0, 19), zoomMarkHidden(41, 60)>>

\* zoomIn ran on a fully visible document with content on both sides
C9_Witness ==
  /\ lastOp = "zoomIn"
  /\ CapabilitiesEnabled
  /\ prevDecorations = <<>>
  /\ lastFoldTo # Null
  /\ lastFoldTo + 1 < docLength
  /\ lastLineFrom > 1
  /\ Len(batch) = 2

\* -------------------------------------------------------- the breadcrumb
\* SpecLabel explores the breadcrumb: documents whose first line is one
\* character long and whose second and last line, where the cursor is, reads
\* any text of Texts(MaxLineLen); the section of that line runs to the end
\* of the document.
LabelLineFrom == 2

InitLabel == InitAt(LabelLineFrom..(LabelLineFrom + MaxLineLen))

NextLabel ==
  \/ \E len \in LabelLineFrom..(LabelLineFrom + MaxLineLen) : Reset(len)
  \/ zoomOut
  \/ \E text \in Texts(MaxLineLen) : \E title \in Titles :
       /\ LabelLineFrom + Len(text) = docLength
       /\ zoomIn(LabelLineFrom, text, title, docLength, TRUE, TRUE, TRUE, FALSE)

SpecLabel == InitLabel /\ [][NextLabel]_vars

\* C13 (as claimed): the breadcrumb of the header decoration that a
\* successful zoomIn has just put in the set reads
\* "<displayName> > <heading>", displayName being the document title and
\* heading the cursor line's text without its leading heading or list-bullet
\* marker.
C13_BreadcrumbText ==
  (lastOp = "zoomIn" /\ ret = "true")
    => textContent = displayName \o <<" ", ">", " ">> \o replace(lineText)

\* ------------------------------------------- update on mixed transactions
\* The values of at most two decorations that zoomStateField takes in a
\* document of length len: a header starts at 0 and is the first range of
\* the first layer, a hidden range ends at the document end, so that a
\* layer holds one hidden range at most, and the hidden range of a layer
\* starts at or before the one of the next layer.  A header and a hidden
\* range are in one layer or in two (the hidden range was added at or
\* before the header's end, or it is left of a set of three whose other
\* hidden range an edit dropped).
DecorationSets(len) ==
  LET headers == {zoomMarkHeader(0, t) : t \in 0..len}
      hiddens == {zoomMarkHidden(f, len) : f \in 0..len}
  IN {<<>>}
       \cup {<<<<m>>>> : m \in headers \cup hiddens}
       \cup {<<<<h, m>>>> : h \in headers, m \in hiddens}
       \cup {<<<<h>>, <<m>>>> : h \in headers, m \in hiddens}
       \cup {<<<<pair[1]>>, <<pair[2]>>>> :
               pair \in {p \in hiddens \X hiddens : p[1].from <= p[2].from}}

\* The batches zoomOut and zoomIn dispatch in a document of length len: the
\* one unmarkHiddenLines builds, and those markHiddenLines builds for a
\* cursor line that starts at lineFrom and a section that ends at foldTo,
\* which are never empty when dispatched (line 148).
Batches(len) ==
  ({unmarkHiddenLines(len)}
     \cup {markHiddenLines(p[1], p[2], len, zoomedElement) :
             p \in {q \in (0..len) \X (0..len) : q[2] <= q[1]},
             zoomedElement \in BOOLEAN})
    \ {<<>>}

\* One transaction that replaces [from, to) by ins characters and carries
\* effects, whose positions refer to the document after the change.
Dispatch(from, to, ins, effects) ==
  LET changes == Sections(from, to, ins, docLength)
  IN /\ lastOp = "create"
     /\ Before
     /\ NoInput
     /\ lastOp' = "dispatch"
     /\ batch' = effects
     /\ notices' = 0
     /\ IF mapThrows(decorations, changes)
        THEN /\ ret' = "RangeError"
             /\ UNCHANGED <<docLength, decorations, decoWidget>>
        ELSE /\ ret' = "none"
             /\ docLength' = newLength(changes)
             /\ decorations' = update(decorations, changes, effects)
             /\ decoWidget' = held(decoWidget, decorations', effects, headerWidget)
     /\ lastChange' = [from |-> from, to |-> to, ins |-> ins]
     /\ UNCHANGED <<isZoomedIn, headerWidget>>

\* An editor on a document of any length whose lines are empty and whose
\* title is SpecTitle, zoomed or not: zoomIn has run at least once, so
\* zoomMarkHeader is assigned.
InitUpdate ==
  /\ docLength \in 0..MaxUpdateLen
  /\ decorations \in DecorationSets(docLength)
  /\ isZoomedIn \in (IF decorations = <<>> THEN BOOLEAN ELSE {TRUE})
  /\ otherZoomedIn = FALSE
  /\ ownInDocument = TRUE
  /\ foldHeading = TRUE
  /\ foldIndent = TRUE
  /\ lastOp = "create"
  /\ ret = "none"
  /\ batch = <<>>
  /\ notices = 0
  /\ lastLineFrom = 0
  /\ lastFoldTo = Null
  /\ prevDecorations = <<>>
  /\ prevZoomedIn = FALSE
  /\ lastChange = NoChange
  /\ displayName = <<>>
  /\ lineText = <<>>
  /\ headerWidget = <<HeaderWidget(replace(<<>>), SpecTitle)>>
  /\ decoWidget = (IF Headers(decorations) = {} THEN <<>> ELSE headerWidget)

NextUpdate ==
  \E from \in 0..docLength : \E to \in from..docLength : \E ins \in 0..MaxInsert :
    \E effects \in Batches(docLength - (to - from) + ins) :
      Dispatch(from, to, ins, effects)

SpecUpdate == InitUpdate /\ [][NextUpdate]_vars

\* update has run on a transaction with effects and returned
Dispatched == lastOp = "dispatch" /\ ret # "RangeError"

\* the decoration set before the transaction, mapped through its change
Mapped ==
  LET c == lastChange
  IN map(prevDecorations,
         Sections(c.from, c.to, c.ins, docLength - c.ins + (c.to - c.from)))

\* C14: the value after a transaction with a change and zoom effects is the
\* old value mapped through the change with the effects then applied; the
\* decoration a single zoomEffect adds has exactly the effect's positions and
\* the other decorations are the mapped ones (those whose mapped start is not
\* 0, when the effect starts at 0).
C14_MapThenSignals ==
  Dispatched
    => /\ decorations = applyEffects(Mapped, batch, 1)
       /\ (Len(batch) = 1 /\ batch[1].type = "zoomEffect" /\ batch[1].from # 0)
            => SameBag(Ranges,
                       iter(Mapped)
                         \o <<zoomMarkHidden(batch[1].from, batch[1].to)>>)
       /\ (Len(batch) = 1 /\ batch[1].type = "zoomEffect" /\ batch[1].from = 0)
            => SameBag(Ranges,
                       <<zoomMarkHeader(0, batch[1].to)>>
                         \o SelectSeq(iter(Mapped), LAMBDA m : m.from # 0))

\* an insertion at 0 moved a hidden range and the transaction's effect added
\* another
C14_Witness ==
  /\ Dispatched
  /\ lastChange.ins > 0
  /\ lastChange.from = 0
  /\ Len(batch) = 1
  /\ batch[1].type = "zoomEffect"
  /\ batch[1].from # 0
  /\ Hiddens(prevDecorations) # {}
  /\ Mapped # prevDecorations
  /\ size(decorations) = size(prevDecorations) + 1

====
